---- MODULE Spec2Model ----
(***************************************************************************)
(* EVSE-SyncCharge: the charge controller (EvseCharge), the contactor      *)
(* driver (Relay), the pilot classifier/debouncer (Pilot) and the residual *)
(* current monitor (Rcm), as one state machine.                            *)
(*                                                                         *)
(* Units: currents are in deci-amps (60 = 6.0 A), duty in hundredths of a  *)
(* percent (1000 = 10 %), voltages in millivolts, times in milliseconds of *)
(* millis() (32-bit unsigned).  Telemetry-only fields (started,            *)
(* _actualCurrent, highVoltageMv, lowVoltageMv) drive no decision and are  *)
(* not part of the state.                                                  *)
(***************************************************************************)
EXTENDS Integers, FiniteSets, Sequences, TLC

(* ------------------------------------------------------------------ *)
(* Enumerations and program constants                                  *)
(* ------------------------------------------------------------------ *)
STATE_READY    == "STATE_READY"
STATE_CHARGING == "STATE_CHARGING"

VEHICLE_NOT_CONNECTED              == "VEHICLE_NOT_CONNECTED"
VEHICLE_CONNECTED                  == "VEHICLE_CONNECTED"
VEHICLE_READY                      == "VEHICLE_READY"
VEHICLE_READY_VENTILATION_REQUIRED == "VEHICLE_READY_VENTILATION_REQUIRED"
VEHICLE_NO_POWER                   == "VEHICLE_NO_POWER"
VEHICLE_ERROR                      == "VEHICLE_ERROR"

VEHICLE_STATE_T ==
  { VEHICLE_NOT_CONNECTED, VEHICLE_CONNECTED, VEHICLE_READY,
    VEHICLE_READY_VENTILATION_REQUIRED, VEHICLE_NO_POWER, VEHICLE_ERROR }

LOW  == FALSE
HIGH == TRUE

RELAY_SWITCH_DELAY == 3000
RCM_TEST_INTERVAL  == 86400000
THROTTLE_RAMP_INTERVAL == 5000
THROTTLE_RAMP_STEP == 10

MIN_CURRENT == 60
MAX_CURRENT == 800
J1772_LOW_RANGE_MAX_AMPS == 510
J1772_HIGH_RANGE_OFFSET  == 6400
J1772_LOW_RANGE_MAX_DUTY == 8500

VOLTAGE_STATE_NOT_CONNECTED  == 10600
VOLTAGE_STATE_CONNECTED      == 8000
VOLTAGE_STATE_READY          == 5000
VOLTAGE_STATE_VENTILATION    == 2000
VOLTAGE_STATE_N12V_THRESHOLD == 1000

STABILITY_COMMIT == 3

(* Any unsigned long difference of 2^31 or more is represented by this  *)
(* value: every threshold it is compared with is smaller.                *)
ULONG_FAR == 2147483647

(* struct ChargingSettings, with its default member initialisers *)
DEFAULT_MAX_CURRENT == 320
DEFAULT_LOW_LIMIT_RESUME_DELAY_MS == 300000
ChargingSettings ==
  [maxCurrent |-> DEFAULT_MAX_CURRENT,
   acRelaisOpenAtPause |-> FALSE,
   disableAtLowLimit |-> TRUE,
   lowLimitResumeDelayMs |-> DEFAULT_LOW_LIMIT_RESUME_DELAY_MS]

(* ------------------------------------------------------------------ *)
(* Bounds of the model and the inputs the environment draws from       *)
(* ------------------------------------------------------------------ *)
BootTime == 1000
TickMs == 3000
LongTick == RCM_TEST_INTERVAL + TickMs
MaxNow == BootTime + LongTick
TickSteps == {LongTick}
RelayTickMs == 1000
RelayMaxTicks == 8
AmpInputs == {45, 70}
ThrottleTimeoutInputs == {0, 1}
ResumeDelayInputs == {2 * TickMs}
LimitMaxTicks == 2
ClampAmpInputs == {-10, 45, 900}
ThrottleTickMs == 2500
MqttTickMs == 6000
MqttMaxTicks == 2
MaxResets == 65536
SeamAmpLo == 500
SeamAmpHi == 535
SeamDutyStep == 25
SeamDutySteps == 8
FsTimeoutInputs == {0, 5, 10, 1800, 3600, 4000}
ThrottleMaxTicks == 3
ThrottleAmpInputs == {75}
ThrottlePeaks == {11000, 5200}
LimitPeaks == {11000, 8500, 5200}
HighPeaks == {11000, 8500, 5200, 500}
LowPeaks  == {-12000, 1500}
NoSamples == [none |-> TRUE, high |-> 0, low |-> 0]
DiodeLowPeaks == {-12000, -300, 1500}

(* "No time yet" of an observer's time stamp *)
NEVER == -1
STATE_COUNT == "STATE_COUNT"
MQTT_RECONNECT_MS == 5000
DEFAULT_FS_TIMEOUT == 600
FS_TIMEOUT_MIN == 10
FS_TIMEOUT_MAX == 3600
BOOT_MAGIC == 48879
BOOT_LIMIT == 5
STABILITY_MS == 300000
UINT16 == 65536

VARIABLES evse, relay, pilot, rcm, now, obs, mqtt, boot, config, test, ctl

vars == <<evse, relay, pilot, rcm, now, obs, mqtt, boot, config, test, ctl>>

(* unsigned long subtraction a - b.  A time stamp that wrapped below 0   *)
(* (now - 5000UL shortly after boot) is kept as the negative number      *)
(* congruent to it, so a difference that is negative here is, in the     *)
(* 32-bit arithmetic of the code, larger than 2^31.                      *)
Sub32(a, b) == IF a - b >= 0 THEN a - b ELSE ULONG_FAR

(* The objects an operation works on, as one value. st is the outcome of  *)
(* the Rcm::selfTest() calls made so far by the running operation, stc    *)
(* whether one of them was made with the charge state Charging, rep        *)
(* whether the operation's Rcm::isTriggered() poll has returned true.       *)
Sys == [e |-> evse, r |-> relay, p |-> pilot, m |-> rcm, st |-> "none",
        stc |-> FALSE, rep |-> FALSE]

(* ------------------------------------------------------------------ *)
(* Relay                                                               *)
(* ------------------------------------------------------------------ *)
Relay_setup(s, initialState) ==
  [s EXCEPT !.r.currentState = initialState, !.r.desiredState = initialState]

Relay_loop_noAntiChatter(s, t) ==
  IF s.r.desiredState # s.r.currentState
  THEN [s EXCEPT !.r.currentState = s.r.desiredState, !.r.lastSwitchTime = t]
  ELSE s

Relay_loop(s, t) ==
  IF s.r.desiredState # s.r.currentState
     /\ (s.r.desiredState = LOW
         \/ s.r.lastSwitchTime = 0
         \/ Sub32(t, s.r.lastSwitchTime) >= RELAY_SWITCH_DELAY)
  THEN [s EXCEPT !.r.currentState = s.r.desiredState, !.r.lastSwitchTime = t]
  ELSE s

Relay_open(s)  == [s EXCEPT !.r.desiredState = LOW]

Relay_close_ignored(s) == s

Relay_close(s) == [s EXCEPT !.r.desiredState = HIGH]

Relay_openImmediately_deferred(s) == [s EXCEPT !.r.desiredState = LOW]

Relay_openImmediately(s) ==
  [s EXCEPT !.r.desiredState = LOW, !.r.currentState = LOW]

(* ------------------------------------------------------------------ *)
(* Pilot                                                               *)
(* ------------------------------------------------------------------ *)
Constrain(x, lo, hi) == IF x < lo THEN lo ELSE IF x > hi THEN hi ELSE x

ampsToDuty(amps) ==
  LET a == Constrain(amps, MIN_CURRENT, MAX_CURRENT)
  IN IF a <= J1772_LOW_RANGE_MAX_AMPS
     THEN (a * 100) \div 6
     ELSE a * 4 + J1772_HIGH_RANGE_OFFSET

dutyToAmps(duty) ==
  IF duty <= J1772_LOW_RANGE_MAX_DUTY
  THEN (duty * 6) \div 100
  ELSE (duty - J1772_HIGH_RANGE_OFFSET) \div 4

Pilot_standby(s) == [s EXCEPT !.p.pwmAttached = FALSE]

Pilot_currentLimit(s, amps) ==
  [s EXCEPT !.p.currentDutyPercent = ampsToDuty(amps), !.p.pwmAttached = TRUE]

(* Pilot::read(), step 3: classification of the peaks *)
DetectedState(highVoltageMv, lowVoltageMv, pwmAttached) ==
  LET byHigh ==
        IF highVoltageMv >= VOLTAGE_STATE_NOT_CONNECTED THEN VEHICLE_NOT_CONNECTED
        ELSE IF highVoltageMv >= VOLTAGE_STATE_CONNECTED THEN VEHICLE_CONNECTED
        ELSE IF highVoltageMv >= VOLTAGE_STATE_READY THEN VEHICLE_READY
        ELSE IF highVoltageMv >= VOLTAGE_STATE_VENTILATION
             THEN VEHICLE_READY_VENTILATION_REQUIRED
        ELSE VEHICLE_NO_POWER
  IN IF pwmAttached /\ byHigh # VEHICLE_NOT_CONNECTED
        /\ lowVoltageMv > VOLTAGE_STATE_N12V_THRESHOLD
     THEN VEHICLE_ERROR
     ELSE byHigh

(* Pilot::read(): the value returned is the lastVehicleState of the result. *)
(* stabilityCounter only matters up to STABILITY_COMMIT and saturates there.*)
Pilot_read(s, sample) ==
  IF sample.none THEN s
  ELSE
    LET detectedState == DetectedState(sample.high, sample.low, s.p.pwmAttached)
        same == detectedState = s.p.candidateState
        counter == IF same
                   THEN (IF s.p.stabilityCounter < STABILITY_COMMIT
                         THEN s.p.stabilityCounter + 1 ELSE STABILITY_COMMIT)
                   ELSE 0
        commit == counter >= STABILITY_COMMIT /\ detectedState # s.p.lastVehicleState
    IN [s EXCEPT !.p.candidateState = detectedState,
                 !.p.stabilityCounter = counter,
                 !.p.lastVehicleState =
                     IF commit THEN detectedState ELSE s.p.lastVehicleState]

(* ------------------------------------------------------------------ *)
(* Rcm                                                                 *)
(* ------------------------------------------------------------------ *)
(* The sense line PIN_RCM_IN is driven by the RCM module, not by the    *)
(* program: its level is an input wherever the code reads it.           *)
(* Rcm::isTriggered(): pinRead is digitalRead(PIN_RCM_IN) after delay(1) *)
Rcm_isTriggeredResult(s, pinRead) == s.m.semaphore /\ pinRead

Rcm_isTriggered(s, pinRead) == [s EXCEPT !.m.semaphore = FALSE]

(* Rcm::selfTest(): both xSemaphoreTake calls leave the semaphore empty; *)
(* success says whether the ISR gave it within the 500 ms wait.          *)
Rcm_selfTest(s, success) ==
  [s EXCEPT !.m.semaphore = FALSE, !.st = IF success THEN "pass" ELSE "fail",
            !.stc = @ \/ s.e.state = STATE_CHARGING]

(* ------------------------------------------------------------------ *)
(* EvseCharge                                                          *)
(* ------------------------------------------------------------------ *)
ChargePermissive_always(v) == v \in VEHICLE_STATE_T

ChargePermissive(v) ==
  v \in {VEHICLE_CONNECTED, VEHICLE_READY, VEHICLE_READY_VENTILATION_REQUIRED}

(* elapsed = (now >= since) ? (now - since) : 0UL *)
Elapsed(t, since) == IF t >= since THEN t - since ELSE 0

(* stopCharging() doing nothing at all when not Charging *)
stopCharging_ignoredWhenIdle(s) ==
  IF s.e.state # STATE_CHARGING THEN s
  ELSE [Relay_openImmediately(s) EXCEPT !.e.state = STATE_READY,
                                        !.e.userPaused = FALSE]

stopCharging(s) ==
  LET s1 == Relay_openImmediately(s)
  IN IF s1.e.state # STATE_CHARGING
     THEN [s1 EXCEPT !.e.userPaused = FALSE]
     ELSE [s1 EXCEPT !.e.state = STATE_READY, !.e.userPaused = FALSE]

(* pauseCharging() without the "state == STATE_CHARGING" condition *)
pauseCharging_always(s) ==
  LET s1 == Relay_openImmediately(s)
  IN [s1 EXCEPT !.e.state = STATE_READY, !.e.userPaused = TRUE]

pauseCharging(s) ==
  IF s.e.state = STATE_CHARGING
  THEN LET s1 == Relay_openImmediately(s)
       IN [s1 EXCEPT !.e.state = STATE_READY, !.e.userPaused = TRUE]
  ELSE s

(* applyCurrentLimit(), the branch currentLimit >= MIN_CURRENT *)
applyAtOrAboveMin(s, t) ==
  LET closeOrOpen(x) ==
        IF x.e.state = STATE_CHARGING
           /\ x.e.vehicleState \in {VEHICLE_READY, VEHICLE_READY_VENTILATION_REQUIRED}
        THEN Relay_close(x) ELSE Relay_open(x)
  IN IF s.e.pausedAtLowLimit
     THEN IF Elapsed(t, s.e.pausedSince) >= s.e.settings.lowLimitResumeDelayMs
          THEN closeOrOpen([Pilot_currentLimit(s, s.e.currentLimit)
                              EXCEPT !.e.pausedAtLowLimit = FALSE])
          ELSE s
     ELSE closeOrOpen(Pilot_currentLimit(s, s.e.currentLimit))

(* applyBelowMin without the "if (!pausedAtLowLimit)" guard of line 372:  *)
(* every application below the minimum starts a new pause.                *)
applyBelowMin_repauses(s, t) ==
  IF s.e.settings.disableAtLowLimit
  THEN LET s1 == Pilot_currentLimit(s, s.e.currentLimit)
           s2 == IF s1.e.settings.acRelaisOpenAtPause
                 THEN Relay_openImmediately(s1) ELSE Relay_open(s1)
       IN [s2 EXCEPT !.e.pausedAtLowLimit = TRUE, !.e.pausedSince = t]
  ELSE [Pilot_currentLimit(s, s.e.currentLimit) EXCEPT !.e.pausedAtLowLimit = FALSE]

(* applyCurrentLimit(), the branch currentLimit < MIN_CURRENT *)
applyBelowMin(s, t) ==
  IF s.e.settings.disableAtLowLimit
  THEN LET s1 == Pilot_currentLimit(s, s.e.currentLimit)
           s2 == IF s1.e.settings.acRelaisOpenAtPause
                 THEN Relay_openImmediately(s1) ELSE Relay_open(s1)
       IN IF ~s2.e.pausedAtLowLimit
          THEN [s2 EXCEPT !.e.pausedAtLowLimit = TRUE, !.e.pausedSince = t]
          ELSE s2
  ELSE [Pilot_currentLimit(s, s.e.currentLimit) EXCEPT !.e.pausedAtLowLimit = FALSE]

applyCurrentLimit(s, t) ==
  IF s.e.currentTest THEN Relay_open(s)
  ELSE IF s.e.state # STATE_CHARGING THEN Relay_open(Pilot_standby(s))
  ELSE IF ChargePermissive(s.e.vehicleState)
       THEN IF s.e.currentLimit >= MIN_CURRENT
            THEN applyAtOrAboveMin(s, t)
            ELSE applyBelowMin(s, t)
       ELSE [Pilot_standby(Relay_open(s)) EXCEPT !.e.pausedAtLowLimit = FALSE]

updateVehicleState_keepsCharging(s, t, sample) ==
  LET s1 == Pilot_read(s, sample)
      newState == s1.p.lastVehicleState
  IN IF newState # s1.e.vehicleState
     THEN applyCurrentLimit([s1 EXCEPT !.e.vehicleState = newState], t)
     ELSE s1

updateVehicleState(s, t, sample) ==
  LET s1 == Pilot_read(s, sample)
      newState == s1.p.lastVehicleState
  IN IF newState # s1.e.vehicleState
     THEN LET s2 == [s1 EXCEPT !.e.vehicleState = newState]
              s3 == IF ~ChargePermissive(newState) /\ s2.e.state = STATE_CHARGING
                    THEN stopCharging(s2) ELSE s2
          IN applyCurrentLimit(s3, t)
     ELSE s1

(* startCharging(): the three early returns *)
startRejected_lockoutOnly(s) == s.e.errorLockout

startRejected(s) ==
  \/ s.e.errorLockout
  \/ s.e.state = STATE_CHARGING
  \/ ~ChargePermissive(s.e.vehicleState)

(* startCharging(): the pre-charge self-test returned false *)
startSelfTestFailed_noLatch(s) == Relay_openImmediately(s)

startSelfTestFailed(s) ==
  Relay_openImmediately([s EXCEPT !.e.rcmTripped = TRUE, !.e.errorLockout = TRUE])

(* success: outcome of the pre-charge Rcm::selfTest(), if it runs *)
startCharging(s, t, success) ==
  IF startRejected(s) THEN s
  ELSE
    LET s1 == IF s.e.rcmEnabled THEN Rcm_selfTest(s, success) ELSE s
    IN IF s.e.rcmEnabled /\ ~success
       THEN startSelfTestFailed(s1)
       ELSE LET s2 == IF s.e.rcmEnabled
                      THEN [s1 EXCEPT !.e.lastRcmTestTime = t] ELSE s1
            IN applyCurrentLimit(
                 [s2 EXCEPT !.e.state = STATE_CHARGING,
                            !.e.userPaused = FALSE,
                            !.e.lastThrottleAliveTime = t], t)

(* setCurrentLimit() without the upper clamp of line 243 *)
setCurrentLimit_noUpperClamp(s, t, amps) ==
  LET a == IF amps < 0 THEN 0 ELSE amps
  IN IF a # s.e.currentLimit
     THEN applyCurrentLimit([s EXCEPT !.e.currentLimit = a], t)
     ELSE s

setCurrentLimit(s, t, amps) ==
  LET a == Constrain(amps, 0, s.e.settings.maxCurrent)
  IN IF a # s.e.currentLimit
     THEN applyCurrentLimit([s EXCEPT !.e.currentLimit = a], t)
     ELSE s

enableCurrentTest(s, enable) ==
  IF enable /\ s.e.state = STATE_CHARGING THEN s
  ELSE Pilot_standby([s EXCEPT !.e.currentTest = enable])

setCurrentTest(s, amps) ==
  IF ~s.e.currentTest THEN s
  ELSE Pilot_currentLimit(s, IF amps < MIN_CURRENT THEN MIN_CURRENT ELSE amps)

setThrottleAliveTimeout(s, seconds) == [s EXCEPT !.e.throttleAliveTimeout = seconds]

(* signalThrottleAlive() that also restores the configured maximum *)
signalThrottleAlive_restoresLimit(s, t) ==
  [s EXCEPT !.e.lastThrottleAliveTime = t,
            !.e.currentLimit = s.e.settings.maxCurrent]

signalThrottleAlive(s, t) == [s EXCEPT !.e.lastThrottleAliveTime = t]

checkResumeFromLowLimit(s, t) ==
  IF s.e.pausedAtLowLimit /\ s.e.currentLimit >= MIN_CURRENT
     /\ Elapsed(t, s.e.pausedSince) >= s.e.settings.lowLimitResumeDelayMs
  THEN applyCurrentLimit(s, t)
  ELSE s

setAllowBelow6AmpCharging(s, t, allow) ==
  applyCurrentLimit([s EXCEPT !.e.settings.disableAtLowLimit = ~allow], t)

setLowLimitResumeDelay(s, ms) == [s EXCEPT !.e.settings.lowLimitResumeDelayMs = ms]

setRcmEnabled(s, enable) == [s EXCEPT !.e.rcmEnabled = enable]

(* managePwmAndRelay(): detection of vehicle state transitions *)
manageLockout_clearsWithoutTransition(s) ==
  LET s1 == [s EXCEPT !.e.lastManagedVehicleState = s.e.vehicleState]
  IN IF s1.e.vehicleState \in {VEHICLE_ERROR, VEHICLE_NO_POWER}
     THEN IF ~s1.e.errorLockout
          THEN LET s2 == [s1 EXCEPT !.e.errorLockout = TRUE]
               IN IF s2.e.state = STATE_CHARGING THEN stopCharging(s2) ELSE s2
          ELSE s1
     ELSE IF s1.e.vehicleState = VEHICLE_NOT_CONNECTED /\ s1.e.errorLockout
          THEN [s1 EXCEPT !.e.errorLockout = FALSE, !.e.rcmTripped = FALSE]
          ELSE s1

manageLockout_clearsWhenConnected(s) ==
  IF s.e.vehicleState # s.e.lastManagedVehicleState
  THEN LET s1 == [s EXCEPT !.e.lastManagedVehicleState = s.e.vehicleState]
       IN IF s1.e.vehicleState \in {VEHICLE_ERROR, VEHICLE_NO_POWER}
          THEN IF ~s1.e.errorLockout
               THEN LET s2 == [s1 EXCEPT !.e.errorLockout = TRUE]
                    IN IF s2.e.state = STATE_CHARGING THEN stopCharging(s2) ELSE s2
               ELSE s1
          ELSE IF s1.e.errorLockout
               THEN [s1 EXCEPT !.e.errorLockout = FALSE, !.e.rcmTripped = FALSE]
               ELSE s1
  ELSE s

manageLockout(s) ==
  IF s.e.vehicleState # s.e.lastManagedVehicleState
  THEN LET s1 == [s EXCEPT !.e.lastManagedVehicleState = s.e.vehicleState]
       IN IF s1.e.vehicleState \in {VEHICLE_ERROR, VEHICLE_NO_POWER}
          THEN IF ~s1.e.errorLockout
               THEN LET s2 == [s1 EXCEPT !.e.errorLockout = TRUE]
                    IN IF s2.e.state = STATE_CHARGING THEN stopCharging(s2) ELSE s2
               ELSE s1
          ELSE IF s1.e.vehicleState = VEHICLE_NOT_CONNECTED /\ s1.e.errorLockout
               THEN [s1 EXCEPT !.e.errorLockout = FALSE, !.e.rcmTripped = FALSE]
               ELSE s1
  ELSE s

manageOutputs_closesWhenConnected(s) ==
  LET v == s.e.vehicleState
      charging == s.e.state = STATE_CHARGING
  IN IF v = VEHICLE_NOT_CONNECTED THEN Relay_open(Pilot_standby(s))
     ELSE IF v \in {VEHICLE_CONNECTED, VEHICLE_READY,
                    VEHICLE_READY_VENTILATION_REQUIRED}
          THEN IF charging
               THEN Relay_close(Pilot_currentLimit(s, s.e.currentLimit))
               ELSE Relay_open(Pilot_standby(s))
     ELSE IF v = VEHICLE_ERROR THEN Relay_openImmediately(Pilot_standby(s))
     ELSE Relay_open(Pilot_standby(s))

(* managePwmAndRelay(): the switch on vehicleState; charging is the      *)
(* value read by its tests of state == STATE_CHARGING                    *)
manageOutputsWith(s, charging) ==
  LET v == s.e.vehicleState
  IN IF v = VEHICLE_NOT_CONNECTED THEN Relay_open(Pilot_standby(s))
     ELSE IF v = VEHICLE_CONNECTED
          THEN Relay_open(IF ~charging THEN Pilot_standby(s) ELSE s)
     ELSE IF v \in {VEHICLE_READY, VEHICLE_READY_VENTILATION_REQUIRED}
          THEN IF charging
               THEN Relay_close(Pilot_currentLimit(s, s.e.currentLimit))
               ELSE Relay_open(Pilot_standby(s))
     ELSE IF v = VEHICLE_NO_POWER THEN Relay_open(Pilot_standby(s))
     ELSE IF v = VEHICLE_ERROR THEN Relay_openImmediately(Pilot_standby(s))
     ELSE Relay_open(Pilot_standby(s))

manageOutputs(s) == manageOutputsWith(s, s.e.state = STATE_CHARGING)

(* managePwmAndRelay() without the test-mode return of lines 419-422 *)
managePwmAndRelay_noTestReturn(s) == manageOutputs(manageLockout(s))

managePwmAndRelay(s) ==
  IF s.e.currentTest THEN Relay_open(s)
  ELSE manageOutputs(manageLockout(s))

(* loop(): an RCM trip that latches the fault without stopCharging() *)
loopRcmCheck_noStop(s, pinRead) ==
  IF s.e.rcmEnabled
  THEN LET s1 == Rcm_isTriggered(s, pinRead)
       IN IF Rcm_isTriggeredResult(s, pinRead)
          THEN [Relay_openImmediately(s1)
                  EXCEPT !.e.rcmTripped = TRUE, !.e.errorLockout = TRUE,
                         !.rep = TRUE]
          ELSE s1
  ELSE s

(* loop(): the RCM check *)
loopRcmCheck(s, pinRead) ==
  IF s.e.rcmEnabled
  THEN LET s1 == Rcm_isTriggered(s, pinRead)
       IN IF Rcm_isTriggeredResult(s, pinRead)
          THEN [stopCharging(Relay_openImmediately(s1))
                  EXCEPT !.e.rcmTripped = TRUE, !.e.errorLockout = TRUE,
                         !.rep = TRUE]
          ELSE s1
  ELSE s

(* loop(): the periodic self-test without "state != STATE_CHARGING" *)
loopPeriodicTest_whileCharging(s, t, success) ==
  IF s.e.rcmEnabled /\ Sub32(t, s.e.lastRcmTestTime) > RCM_TEST_INTERVAL
  THEN LET s1 == Rcm_selfTest(s, success)
       IN IF success
          THEN [s1 EXCEPT !.e.lastRcmTestTime = t]
          ELSE Relay_openImmediately(
                 [s1 EXCEPT !.e.rcmTripped = TRUE, !.e.errorLockout = TRUE])
  ELSE s

(* loop(): the periodic self-test *)
loopPeriodicTest(s, t, success) ==
  IF s.e.rcmEnabled /\ s.e.state # STATE_CHARGING
     /\ Sub32(t, s.e.lastRcmTestTime) > RCM_TEST_INTERVAL
  THEN LET s1 == Rcm_selfTest(s, success)
       IN IF success
          THEN [s1 EXCEPT !.e.lastRcmTestTime = t]
          ELSE Relay_openImmediately(
                 [s1 EXCEPT !.e.rcmTripped = TRUE, !.e.errorLockout = TRUE])
  ELSE s

(* loop(): ThrottleAlive, without the 5 s ramp interval of line 93 *)
loopThrottleAlive_noRampInterval(s, t) ==
  IF s.e.throttleAliveTimeout > 0 /\ s.e.state = STATE_CHARGING
  THEN IF Sub32(t, s.e.lastThrottleAliveTime)
            > s.e.throttleAliveTimeout * 1000
       THEN IF s.e.currentLimit > MIN_CURRENT
            THEN LET next == IF s.e.currentLimit - THROTTLE_RAMP_STEP < MIN_CURRENT
                             THEN MIN_CURRENT
                             ELSE s.e.currentLimit - THROTTLE_RAMP_STEP
                 IN [setCurrentLimit(s, t, next) EXCEPT !.e.lastThrottleRampTime = t]
            ELSE s
       ELSE [s EXCEPT !.e.lastThrottleRampTime = t - THROTTLE_RAMP_INTERVAL]
  ELSE s

(* loop(): ThrottleAlive *)
loopThrottleAlive(s, t) ==
  IF s.e.throttleAliveTimeout > 0 /\ s.e.state = STATE_CHARGING
  THEN IF Sub32(t, s.e.lastThrottleAliveTime)
            > s.e.throttleAliveTimeout * 1000
       THEN IF s.e.currentLimit > MIN_CURRENT
               /\ Sub32(t, s.e.lastThrottleRampTime) >= THROTTLE_RAMP_INTERVAL
            THEN LET next == IF s.e.currentLimit - THROTTLE_RAMP_STEP < MIN_CURRENT
                             THEN MIN_CURRENT
                             ELSE s.e.currentLimit - THROTTLE_RAMP_STEP
                 IN [setCurrentLimit(s, t, next) EXCEPT !.e.lastThrottleRampTime = t]
            ELSE s
       ELSE [s EXCEPT !.e.lastThrottleRampTime = t - THROTTLE_RAMP_INTERVAL]
  ELSE s

(* loop() from the periodic self-test rule on *)
loopFromPeriodicTest(s1, t, success, sample) ==
  LET s2 == loopPeriodicTest(s1, t, success)
      s3 == Relay_loop(s2, t)
      s4 == updateVehicleState(s3, t, sample)
      s5 == managePwmAndRelay(s4)
      s6 == checkResumeFromLowLimit(s5, t)
  IN loopThrottleAlive(s6, t)

loop(s, t, pinRead, success, sample) ==
  loopFromPeriodicTest(loopRcmCheck(s, pinRead), t, success, sample)

(* setup() that starts with the error lockout clear *)
setup_unlocked(s, t, settings_) ==
  LET s1 == Pilot_standby(Relay_setup(s, LOW))
  IN [s1 EXCEPT !.e.settings = settings_,
                !.e.currentLimit = settings_.maxCurrent,
                !.e.vehicleState = VEHICLE_NOT_CONNECTED,
                !.e.state = STATE_READY,
                !.e.userPaused = FALSE,
                !.e.errorLockout = FALSE,
                !.e.lastRcmTestTime = t]

setup(s, t, settings_) ==
  LET s1 == Pilot_standby(Relay_setup(s, LOW))
  IN [s1 EXCEPT !.e.settings = settings_,
                !.e.currentLimit = settings_.maxCurrent,
                !.e.vehicleState = VEHICLE_NOT_CONNECTED,
                !.e.state = STATE_READY,
                !.e.userPaused = FALSE,
                !.e.errorLockout = TRUE,
                !.e.lastRcmTestTime = t]

(* ------------------------------------------------------------------ *)
(* The state machine                                                   *)
(* ------------------------------------------------------------------ *)
(* Members as initialised in EvseCharge.h, Relay::Relay(), Pilot.h and  *)
(* the statics of Pilot::read(), followed by the boot-time setup().     *)
Init ==
  /\ now = BootTime
  /\ evse = [state |-> STATE_READY,
             vehicleState |-> VEHICLE_NOT_CONNECTED,
             settings |-> ChargingSettings,
             currentLimit |-> ChargingSettings.maxCurrent,
             currentTest |-> FALSE,
             pausedAtLowLimit |-> FALSE,
             userPaused |-> FALSE,
             pausedSince |-> 0,
             errorLockout |-> TRUE,
             rcmEnabled |-> TRUE,
             rcmTripped |-> FALSE,
             throttleAliveTimeout |-> 0,
             lastThrottleAliveTime |-> 0,
             lastThrottleRampTime |-> 0,
             lastRcmTestTime |-> BootTime,
             lastManagedVehicleState |-> VEHICLE_NOT_CONNECTED]
  /\ relay = [currentState |-> LOW, desiredState |-> LOW, lastSwitchTime |-> 0]
  /\ pilot = [pwmAttached |-> FALSE,
              currentDutyPercent |-> 0,
              lastVehicleState |-> VEHICLE_NOT_CONNECTED,
              candidateState |-> VEHICLE_ERROR,
              stabilityCounter |-> 0]
  /\ rcm = [semaphore |-> FALSE]
  /\ obs = [st |-> "none", tripPending |-> FALSE, testedThisCharge |-> FALSE,
            unplugSeen |-> FALSE, lastClosed |-> NEVER,
            lastDrop |-> NEVER, prevFresh |-> FALSE, testWhileCharging |-> FALSE,
            run |-> 0, runState |-> VEHICLE_ERROR, pwmDuty |-> -1,
            reqAmps |-> NEVER, ownReported |-> FALSE]
  /\ mqtt = [connected |-> FALSE, lastAttempt |-> 0,
             lastState |-> STATE_COUNT, topicState |-> "none",
             fsEnabled |-> FALSE, fsTimeout |-> DEFAULT_FS_TIMEOUT]
  /\ boot = [magic |-> BOOT_MAGIC, count |-> 1, resets |-> 0, counted |-> TRUE]
  /\ config = [mqttFailsafeEnabled |-> FALSE,
               mqttFailsafeTimeout |-> DEFAULT_FS_TIMEOUT,
               rcmEnabled |-> TRUE,
               solarStopTimeout |-> 0]
  /\ test = [pc |-> "idle", caller |-> "none", line |-> FALSE,
             edged |-> FALSE, success |-> FALSE, own |-> FALSE,
             lastTest |-> NEVER]
  /\ ctl = [pc |-> "idle", charging |-> FALSE, stopped |-> FALSE]

(* What an observer of the run records when a controller operation     *)
(* returns: the outcome of the Rcm::selfTest() the operation ran, if    *)
(* any; whether the ISR has signalled, while charging with the RCM      *)
(* enabled, a trip that no control cycle has run since; and whether a   *)
(* self-test has passed since the charge in progress began (with the    *)
(* Ready -> Charging transition); and whether, since boot, the pilot's  *)
(* committed state has changed to NotConnected from another state; and *)
(* the time at which the relay pin last went from Open to Closed; and   *)
(* the time of the last control cycle that lowered currentLimit, if no  *)
(* ThrottleAlive signal, start or timeout change has come since; and    *)
(* whether the last control cycle ran while Charging with the           *)
(* ThrottleAlive timeout armed and not exceeded; and whether the        *)
(* operation called Rcm::selfTest() with the charge state Charging.     *)
(* run and runState are kept by the reads of the pilot driven directly, *)
(* pwmDuty, the value last published as evse/D/pwmDuty (lastPwmDuty of   *)
(* the MQTT controller, -1 before the first publication), by its loop;  *)
(* reqAmps, the amps last handed to Pilot::currentLimit() by a caller   *)
(* driving the pilot directly or through the test mode, by that caller; *)
(* ownReported, whether the operation's Rcm::isTriggered() poll has     *)
(* returned true on a semaphore signal given for a self-test's pulse.   *)
ThrottleExceeded(e, t) ==
  Sub32(t, e.lastThrottleAliveTime) > e.throttleAliveTimeout * 1000

Observe(s, cycle) ==
  [st |-> s.st,
   pwmDuty |-> obs.pwmDuty,
   reqAmps |-> obs.reqAmps,
   ownReported |-> s.rep /\ test.own,
   run |-> obs.run,
   runState |-> obs.runState,
   testWhileCharging |-> s.stc,
   lastDrop |-> IF cycle /\ s.e.currentLimit < evse.currentLimit THEN now
                ELSE IF s.e.lastThrottleAliveTime # evse.lastThrottleAliveTime
                        \/ s.e.throttleAliveTimeout # evse.throttleAliveTimeout
                     THEN NEVER
                     ELSE obs.lastDrop,
   prevFresh |-> IF cycle
                 THEN /\ s.e.state = STATE_CHARGING
                      /\ s.e.throttleAliveTimeout > 0
                      /\ ~ThrottleExceeded(s.e, now)
                 ELSE obs.prevFresh,
   lastClosed |-> IF relay.currentState = LOW /\ s.r.currentState = HIGH
                  THEN now ELSE obs.lastClosed,
   unplugSeen |-> obs.unplugSeen
                    \/ (pilot.lastVehicleState # VEHICLE_NOT_CONNECTED
                          /\ s.p.lastVehicleState = VEHICLE_NOT_CONNECTED),
   tripPending |-> obs.tripPending /\ ~cycle,
   testedThisCharge |->
     IF s.e.state = STATE_CHARGING
     THEN (s.st = "pass") \/ (evse.state = STATE_CHARGING /\ obs.testedThisCharge)
     ELSE FALSE]

(* cycle: the operation returning is loop() *)
Finish(s, cycle) ==
  /\ evse' = s.e
  /\ relay' = s.r
  /\ pilot' = s.p
  /\ rcm' = s.m
  /\ obs' = Observe(s, cycle)
  /\ UNCHANGED <<now, mqtt, boot, config, test, ctl>>

Return(s) == Finish(s, FALSE)

(* The inputs of an operation are drawn only where the code reads them. *)
PinReads == IF evse.rcmEnabled /\ rcm.semaphore THEN BOOLEAN ELSE {FALSE}

PeriodicTestDue(s, t) ==
  s.e.rcmEnabled /\ s.e.state # STATE_CHARGING
    /\ Sub32(t, s.e.lastRcmTestTime) > RCM_TEST_INTERVAL

(* Without PWM the pilot is a DC level: the trough equals the peak. *)
PilotSamplesRead ==
  {NoSamples}
    \cup (IF pilot.pwmAttached
          THEN [none : {FALSE}, high : HighPeaks, low : LowPeaks]
          ELSE {[none |-> FALSE, high |-> h, low |-> h] : h \in HighPeaks})

(* One control cycle *)
Loop ==
  \E pinRead \in PinReads, sample \in PilotSamplesRead :
    \E success \in (IF PeriodicTestDue(loopRcmCheck(Sys, pinRead), now)
                    THEN BOOLEAN ELSE {TRUE}) :
      Finish(loop(Sys, now, pinRead, success, sample), TRUE)

StartAccepted ==
  ~evse.errorLockout /\ evse.state # STATE_CHARGING
    /\ ChargePermissive(evse.vehicleState)

StartCharging ==
  \E success \in (IF StartAccepted /\ evse.rcmEnabled THEN BOOLEAN ELSE {TRUE}) :
    Return(startCharging(Sys, now, success))

StopCharging == Return(stopCharging(Sys))

(* WebController::handleCmd, "stop": stopCharging() then pilot.disable() *)
HandleCmdStop == Return(Pilot_standby(stopCharging(Sys)))

PauseCharging == Return(pauseCharging(Sys))

SetCurrentLimit ==
  \E amps \in AmpInputs : Return(setCurrentLimit(Sys, now, amps))

EnableCurrentTest ==
  \E enable \in BOOLEAN : Return(enableCurrentTest(Sys, enable))

SetCurrentTest ==
  \E amps \in AmpInputs : Return(setCurrentTest(Sys, amps))

SetThrottleAliveTimeout ==
  \E seconds \in ThrottleTimeoutInputs :
    Return(setThrottleAliveTimeout(Sys, seconds))

SignalThrottleAlive == Return(signalThrottleAlive(Sys, now))

SetAllowBelow6AmpCharging ==
  \E allow \in BOOLEAN : Return(setAllowBelow6AmpCharging(Sys, now, allow))

SetLowLimitResumeDelay ==
  \E ms \in ResumeDelayInputs : Return(setLowLimitResumeDelay(Sys, ms))

SetRcmEnabled ==
  \E enable \in BOOLEAN : Return(setRcmEnabled(Sys, enable))

(* WebController::handleEvseReset: setup(cs) with the factory settings,  *)
(* then setRcmEnabled(true)                                              *)
HandleEvseReset ==
  Return(setRcmEnabled(setup(Sys, now, ChargingSettings), TRUE))

(* rcmIsr: a rising edge of the sense line gives the binary semaphore *)
RcmIsr ==
  /\ rcm' = [rcm EXCEPT !.semaphore = TRUE]
  /\ obs' = [obs EXCEPT !.tripPending =
                @ \/ (evse.rcmEnabled /\ evse.state = STATE_CHARGING)]
  /\ test' = [test EXCEPT !.own = FALSE]
  /\ UNCHANGED <<evse, relay, pilot, now, mqtt, boot, config, ctl>>

(* millis() advances *)
Tick ==
  \E d \in TickSteps :
    /\ now + d <= MaxNow
    /\ now' = now + d
    /\ UNCHANGED <<evse, relay, pilot, rcm, obs, mqtt, boot, config, test, ctl>>

Next ==
  \/ Loop
  \/ StartCharging
  \/ StopCharging
  \/ PauseCharging
  \/ EnableCurrentTest
  \/ SetRcmEnabled
  \/ HandleEvseReset
  \/ RcmIsr
  \/ Tick

Spec == Init /\ [][Next]_vars

(* ------------------------------------------------------------------ *)
(* The Relay driven directly: any sequence of its calls                *)
(* ------------------------------------------------------------------ *)
CallRelayClose == Return(Relay_close(Sys))

CallRelayOpen == Return(Relay_open(Sys))

CallRelayOpenImmediately == Return(Relay_openImmediately(Sys))

CallRelayLoop == Return(Relay_loop(Sys, now))

TickRelay ==
  /\ now + RelayTickMs <= BootTime + RelayMaxTicks * RelayTickMs
  /\ now' = now + RelayTickMs
  /\ UNCHANGED <<evse, relay, pilot, rcm, obs, mqtt, boot, config, test, ctl>>

NextRelay ==
  \/ CallRelayClose
  \/ CallRelayOpen
  \/ CallRelayOpenImmediately
  \/ CallRelayLoop
  \/ TickRelay

SpecRelay == Init /\ [][NextRelay]_vars

(* ------------------------------------------------------------------ *)
(* The Pilot driven directly: any sequence of reads with the PWM on    *)
(* or off. The observer counts, up to one more than STABILITY_COMMIT,  *)
(* the consecutive reads with samples that produced the same           *)
(* classification runState.                                            *)
(* ------------------------------------------------------------------ *)
PilotReadSamples ==
  {NoSamples}
    \cup (IF pilot.pwmAttached
          THEN [none : {FALSE}, high : HighPeaks, low : DiodeLowPeaks]
          ELSE {[none |-> FALSE, high |-> h, low |-> h] : h \in HighPeaks})

ObserveRead(sample) ==
  IF sample.none THEN obs
  ELSE LET d == DetectedState(sample.high, sample.low, pilot.pwmAttached)
       IN [obs EXCEPT !.runState = d,
                      !.run = IF obs.run > 0 /\ d = obs.runState
                              THEN (IF obs.run <= STABILITY_COMMIT
                                    THEN obs.run + 1 ELSE obs.run)
                              ELSE 1]

CallPilotReadWith(sample) ==
  /\ pilot' = Pilot_read(Sys, sample).p
  /\ obs' = ObserveRead(sample)
  /\ UNCHANGED <<evse, relay, rcm, now, mqtt, boot, config, test, ctl>>

CallPilotRead == \E sample \in PilotReadSamples : CallPilotReadWith(sample)

CallPilotCurrentLimit ==
  \E amps \in AmpInputs : Return(Pilot_currentLimit(Sys, amps))

CallPilotStandby == Return(Pilot_standby(Sys))

NextPilot ==
  \/ CallPilotRead
  \/ CallPilotCurrentLimit
  \/ CallPilotStandby

SpecPilot == Init /\ [][NextPilot]_vars

(* ------------------------------------------------------------------ *)
(* The controller under a supervisor that moves the current limit      *)
(* ------------------------------------------------------------------ *)
TickLimit ==
  /\ now + TickMs <= BootTime + LimitMaxTicks * TickMs
  /\ now' = now + TickMs
  /\ UNCHANGED <<evse, relay, pilot, rcm, obs, mqtt, boot, config, test, ctl>>

(* One control cycle with a healthy pilot (states A, B, C; the trough   *)
(* at -12 V under PWM) and no RCM event pending.                        *)
LimitSamples ==
  {NoSamples}
    \cup {[none |-> FALSE, high |-> h,
           low |-> IF pilot.pwmAttached THEN -12000 ELSE h] : h \in LimitPeaks}

LoopLimit ==
  \E sample \in LimitSamples :
    Finish(loop(Sys, now, FALSE, TRUE, sample), TRUE)

NextLimit ==
  \/ LoopLimit
  \/ StartCharging
  \/ StopCharging
  \/ SetCurrentLimit
  \/ SetAllowBelow6AmpCharging
  \/ SetLowLimitResumeDelay
  \/ TickLimit

SpecLimit == Init /\ [][NextLimit]_vars

(* ------------------------------------------------------------------ *)
(* The controller under a supervisor whose ThrottleAlive signal stops  *)
(* ------------------------------------------------------------------ *)
TickThrottle ==
  /\ now + ThrottleTickMs <= BootTime + ThrottleMaxTicks * ThrottleTickMs
  /\ now' = now + ThrottleTickMs
  /\ UNCHANGED <<evse, relay, pilot, rcm, obs, mqtt, boot, config, test, ctl>>

SetThrottleLimit ==
  \E amps \in ThrottleAmpInputs : Return(setCurrentLimit(Sys, now, amps))

(* One control cycle with the vehicle unplugged (state A) or drawing    *)
(* current (state C) and no RCM event pending.                          *)
ThrottleSamples ==
  {NoSamples}
    \cup {[none |-> FALSE, high |-> h,
           low |-> IF pilot.pwmAttached THEN -12000 ELSE h] : h \in ThrottlePeaks}

LoopThrottle ==
  \E sample \in ThrottleSamples :
    Finish(loop(Sys, now, FALSE, TRUE, sample), TRUE)

NextThrottle ==
  \/ LoopThrottle
  \/ StartCharging
  \/ StopCharging
  \/ SetThrottleLimit
  \/ SetThrottleAliveTimeout
  \/ SignalThrottleAlive
  \/ TickThrottle

SpecThrottle == Init /\ [][NextThrottle]_vars

(* ------------------------------------------------------------------ *)
(* The controller given current limits inside and outside its range    *)
(* ------------------------------------------------------------------ *)
SetAnyCurrentLimit ==
  \E amps \in ClampAmpInputs : Return(setCurrentLimit(Sys, now, amps))

NextClamp ==
  \/ LoopThrottle
  \/ StartCharging
  \/ StopCharging
  \/ EnableCurrentTest
  \/ SetAnyCurrentLimit
  \/ SetThrottleAliveTimeout
  \/ Tick

SpecClamp == Init /\ [][NextClamp]_vars

(* ------------------------------------------------------------------ *)
(* The controller under a user who pauses and a supervisor who lowers  *)
(* the limit                                                           *)
(* ------------------------------------------------------------------ *)
NextPause ==
  \/ LoopThrottle
  \/ StartCharging
  \/ StopCharging
  \/ PauseCharging
  \/ SetCurrentLimit
  \/ Tick

SpecPause == Init /\ [][NextPause]_vars

(* ------------------------------------------------------------------ *)
(* The controller and the MQTT publisher of the PWM duty               *)
(* ------------------------------------------------------------------ *)
Pilot_getPwmDuty(s) == s.p.currentDutyPercent

(* itoa() of a STATE_T: the text published on evse/D/state *)
itoa(st) ==
  IF st = STATE_READY THEN "0" ELSE IF st = STATE_CHARGING THEN "1" ELSE "2"

(* PubSubClient::publish() on evse/D/state: delivered only while the     *)
(* client is connected; the callers ignore its result.                   *)
publishState(m, text) ==
  IF m.connected THEN [m EXCEPT !.topicState = text] ELSE m

(* EvseMqttController::loop(): the reconnect attempt, at most one per     *)
(* MQTT_RECONNECT_MS, which publishes "online" on evse/D/state when it    *)
(* succeeds (ok), then the report of the charge state on change.          *)
mqttReconnect(m, t, ok) ==
  IF ~m.connected /\ Sub32(t, m.lastAttempt) > MQTT_RECONNECT_MS
  THEN LET m1 == [m EXCEPT !.connected = ok, !.lastAttempt = t]
       IN IF ok THEN publishState(m1, "online") ELSE m1
  ELSE m

mqttReportState(m, s) ==
  IF s.e.state # m.lastState
  THEN [publishState(m, itoa(s.e.state)) EXCEPT !.lastState = s.e.state]
  ELSE m

EvseMqttController_loop(m, s, t, ok) == mqttReportState(mqttReconnect(m, t, ok), s)

(* EvseMqttController::loop(): state and pwmDuty published on change *)
MqttLoop ==
  \E ok \in BOOLEAN :
    /\ mqtt' = EvseMqttController_loop(mqtt, Sys, now, ok)
    /\ obs' = [obs EXCEPT !.pwmDuty = Pilot_getPwmDuty(Sys)]
    /\ UNCHANGED <<evse, relay, pilot, rcm, now, boot, config, test, ctl>>

NextPublish ==
  \/ LoopThrottle
  \/ StartCharging
  \/ StopCharging
  \/ EnableCurrentTest
  \/ SetCurrentTest
  \/ MqttLoop

SpecPublish == Init /\ [][NextPublish]_vars

(* ------------------------------------------------------------------ *)
(* Properties                                                          *)
(* ------------------------------------------------------------------ *)
RelayOpen   == relay.currentState = LOW
RelayOpen_  == relay'.currentState = LOW

(* C1: whenever the charge state is Ready the relay's actual state is   *)
(* Open, after every control cycle and every public operation.          *)
C1_ReadyImpliesRelayOpen == evse.state = STATE_READY => RelayOpen

(* A charge that had the relay closed has ended, and the relay is open. *)
C1_Witness ==
  evse.state = STATE_READY /\ relay.lastSwitchTime # 0 /\ RelayOpen

(* C2: the relay is Open whenever the committed vehicle state is        *)
(* NotConnected, NoPower or Error.                                      *)
C2_NoVehicleImpliesRelayOpen ==
  evse.vehicleState \in {VEHICLE_NOT_CONNECTED, VEHICLE_NO_POWER, VEHICLE_ERROR}
    => RelayOpen

(* A diode/short fault was committed after the relay had been closed.   *)
C2_Witness ==
  evse.vehicleState = VEHICLE_ERROR /\ relay.lastSwitchTime # 0 /\ RelayOpen

(* C3: while Charging the committed vehicle state is Connected, Ready   *)
(* or ReadyVentilationRequired.                                         *)
C3_ChargingImpliesVehiclePresent ==
  evse.state = STATE_CHARGING =>
    evse.vehicleState \in {VEHICLE_CONNECTED, VEHICLE_READY,
                           VEHICLE_READY_VENTILATION_REQUIRED}

(* A charge whose relay had closed goes on after the vehicle fell back  *)
(* from Ready to Connected.                                             *)
C3_Witness ==
  evse.state = STATE_CHARGING /\ evse.vehicleState = VEHICLE_CONNECTED
    /\ relay.lastSwitchTime # 0

(* C4: errorLockout goes from TRUE to FALSE only in a control cycle at  *)
(* whose end the committed vehicle state is NotConnected.               *)
C4_LockoutClearedOnlyByUnplug ==
  [][(evse.errorLockout /\ ~evse'.errorLockout)
       => (Loop /\ evse'.vehicleState = VEHICLE_NOT_CONNECTED)]_vars

(* The lockout left by an RCM fault has been cleared by an unplug.      *)
C4_Witness ==
  ~evse.errorLockout /\ evse.vehicleState = VEHICLE_NOT_CONNECTED
    /\ evse.lastManagedVehicleState = VEHICLE_NOT_CONNECTED
    /\ relay.lastSwitchTime # 0

(* C5: startCharging() while the lockout is set, while already Charging *)
(* or while the vehicle state is not permissive changes nothing and     *)
(* runs no self-test (which would empty the RCM semaphore).             *)
C5_RejectedStartChangesNothing ==
  [][(StartCharging
        /\ (evse.errorLockout \/ evse.state = STATE_CHARGING
              \/ evse.vehicleState \notin {VEHICLE_CONNECTED, VEHICLE_READY,
                                           VEHICLE_READY_VENTILATION_REQUIRED}))
       => (UNCHANGED <<evse, relay, pilot, rcm>> /\ obs'.st = "none")]_vars

(* A start would be rejected as already charging while the semaphore    *)
(* that a self-test would empty is given.                               *)
C5_Witness ==
  evse.state = STATE_CHARGING /\ evse.rcmEnabled /\ rcm.semaphore
    /\ ~evse.errorLockout

(* C7: an accepted startCharging() with the RCM enabled whose self-test *)
(* returns false leaves Ready, errorLockout, rcmTripped and the relay   *)
(* Open.                                                                *)
C7_FailedPreChargeTestLocksOut ==
  [][(StartAccepted /\ evse.rcmEnabled /\ Return(startCharging(Sys, now, FALSE)))
       => (evse'.state = STATE_READY /\ evse'.errorLockout /\ evse'.rcmTripped
             /\ RelayOpen_)]_vars

(* A self-test has just failed with no periodic test due: the failure   *)
(* is that of the pre-charge test.                                      *)
C7_Witness ==
  obs.st = "fail" /\ now = BootTime /\ evse.state = STATE_READY
    /\ evse.errorLockout /\ evse.rcmTripped

(* C6: while Charging with the RCM enabled, a self-test has succeeded   *)
(* since the Ready -> Charging transition of the charge in progress.    *)
C6_ChargingWithRcmWasTested ==
  (evse.state = STATE_CHARGING /\ evse.rcmEnabled) => obs.testedThisCharge

(* C8: a control cycle that begins Charging with the RCM enabled and in *)
(* which isTriggered() returns true ends with the relay Open, Ready,    *)
(* errorLockout and rcmTripped, whatever the pilot returns.             *)
C8_TripLatchedAtEndOfCycle ==
  [][(evse.state = STATE_CHARGING /\ evse.rcmEnabled /\ rcm.semaphore
        /\ \E sample \in PilotSamplesRead, success \in BOOLEAN :
              Finish(loop(Sys, now, TRUE, success, sample), TRUE))
       => (RelayOpen_ /\ evse'.state = STATE_READY
             /\ evse'.errorLockout /\ evse'.rcmTripped)]_vars

(* C9: a trip the ISR signalled while Charging with the RCM enabled has *)
(* the relay Open and errorLockout set at the end of the next control   *)
(* cycle.                                                               *)
C9_IsrTripHandledByNextCycle ==
  [][(obs.tripPending /\ Loop) => (RelayOpen_ /\ evse'.errorLockout)]_vars

(* C10: a control cycle in which the committed vehicle state changes to *)
(* Error or NoPower ends with errorLockout set, in every mode.          *)
C10_FaultStateSetsLockout ==
  [][(Loop /\ evse'.vehicleState # evse.vehicleState
        /\ evse'.vehicleState \in {VEHICLE_ERROR, VEHICLE_NO_POWER})
       => evse'.errorLockout]_vars


(* A control cycle in which isTriggered() does not report a trip and no  *)
(* self-test fails.                                                     *)
QuietLoop ==
  \E pinRead \in PinReads, sample \in PilotSamplesRead :
    /\ ~(evse.rcmEnabled /\ Rcm_isTriggeredResult(Sys, pinRead))
    /\ Finish(loop(Sys, now, pinRead, TRUE, sample), TRUE)

(* C11: a control cycle without RCM trip or self-test failure in which  *)
(* the committed vehicle state changes to NotConnected while            *)
(* errorLockout is set ends with errorLockout and rcmTripped cleared.   *)
C11_UnplugClearsLockout ==
  [][(QuietLoop /\ evse.errorLockout
        /\ evse.vehicleState # VEHICLE_NOT_CONNECTED
        /\ evse'.vehicleState = VEHICLE_NOT_CONNECTED)
       => (~evse'.errorLockout /\ ~evse'.rcmTripped)]_vars


(* C12: from boot on errorLockout stays set, and so every               *)
(* startCharging() is rejected, until the committed vehicle state has   *)
(* changed to NotConnected from another state; a first plug-in does not *)
(* clear it.                                                            *)
C12_LockoutHeldUntilUnplugSeen == ~obs.unplugSeen => evse.errorLockout

(* After a boot with no vehicle the first plug-in has been committed,   *)
(* no unplug has been seen yet, and the lockout is still set.           *)
C12_Witness ==
  ~obs.unplugSeen /\ evse.vehicleState = VEHICLE_READY
    /\ evse.lastManagedVehicleState = VEHICLE_READY /\ evse.errorLockout


CloseConditions(e) ==
  /\ e.state = STATE_CHARGING
  /\ e.vehicleState \in {VEHICLE_READY, VEHICLE_READY_VENTILATION_REQUIRED}
  /\ e.currentLimit >= MIN_CURRENT
  /\ ~e.currentTest

AntiChatterElapsed ==
  relay.lastSwitchTime = 0 \/ now - relay.lastSwitchTime >= RELAY_SWITCH_DELAY

PwmFollowsTable_ ==
  IF evse'.state = STATE_CHARGING
       /\ evse'.vehicleState \in {VEHICLE_CONNECTED, VEHICLE_READY,
                                  VEHICLE_READY_VENTILATION_REQUIRED}
  THEN pilot'.pwmAttached
         /\ pilot'.currentDutyPercent = ampsToDuty(evse'.currentLimit)
  ELSE ~pilot'.pwmAttached

C16_PwmFollowsTable ==
  [][~(~evse'.currentTest /\ ~PwmFollowsTable_ /\ Loop)]_vars


(* C17: in strict mode, for as long as pausedAtLowLimit stays set the   *)
(* relay is not closed and the PWM duty is not changed to that of a     *)
(* limit of 6 A or more.                                                *)
C17_PausedKeepsRelayOpen ==
  [][(evse.pausedAtLowLimit /\ evse'.pausedAtLowLimit
        /\ evse.settings.disableAtLowLimit /\ evse'.settings.disableAtLowLimit)
       => (/\ ~(relay.currentState = LOW /\ relay'.currentState = HIGH)
           /\ (pilot'.currentDutyPercent # pilot.currentDutyPercent
                 => evse'.currentLimit < MIN_CURRENT))]_vars

C19_ResumeWhenDelayElapsed ==
  [][~(/\ evse.pausedAtLowLimit
       /\ evse.currentLimit >= MIN_CURRENT
       /\ Elapsed(now, evse.pausedSince) >= evse.settings.lowLimitResumeDelayMs
       /\ evse'.pausedAtLowLimit
       /\ LoopLimit)]_vars

(* C20: in throttle mode, while Charging with a charge-permissive        *)
(* vehicle, a step that sets the limit to 4.5 A leaves the PWM attached  *)
(* at a duty of 4.5 / 0.6 = 7.5 % and pausedAtLowLimit cleared.          *)
C20_ThrottleDutyBelowMin ==
  [][(/\ ~evse.settings.disableAtLowLimit
      /\ evse.state = STATE_CHARGING
      /\ ChargePermissive(evse.vehicleState)
      /\ evse.currentLimit # evse'.currentLimit
      /\ evse'.currentLimit < MIN_CURRENT)
       => /\ pilot'.pwmAttached
          /\ pilot'.currentDutyPercent = (evse'.currentLimit * 100) \div 6
          /\ ~evse'.pausedAtLowLimit]_vars

(* C21: in a control cycle that ends Charging with the ThrottleAlive     *)
(* timeout armed, currentLimit is lowered only when the timeout is       *)
(* exceeded, only by 1 A and never below 6 A, and only 5 s or more after *)
(* the previous drop of the same silence; it is lowered when the limit   *)
(* is above 6 A and the timeout is exceeded for the first time (the      *)
(* previous cycle found it not exceeded) or 5 s have passed since the    *)
(* previous drop. No other control cycle changes currentLimit.           *)
ThrottleArmed_ == evse.throttleAliveTimeout > 0 /\ evse'.state = STATE_CHARGING

RampStep(a) ==
  IF a - THROTTLE_RAMP_STEP < MIN_CURRENT THEN MIN_CURRENT ELSE a - THROTTLE_RAMP_STEP

C22_StartRejectedInTestMode ==
  [][~(/\ evse.currentTest
       /\ (evse'.state # STATE_READY \/ ~UNCHANGED <<evse, relay, pilot, rcm>>)
       /\ StartCharging)]_vars

(* C23: while currentTest is set the relay is Open and no close request *)
(* is pending, after every control cycle and every command.             *)
C23_TestModeKeepsRelayOpen ==
  evse.currentTest => (RelayOpen /\ relay.desiredState = LOW)

(* test mode with the conditions under which the relay is otherwise     *)
(* closed: Charging with the vehicle Ready                              *)
C23_Witness ==
  /\ evse.currentTest
  /\ evse.state = STATE_CHARGING
  /\ evse.vehicleState = VEHICLE_READY
  /\ evse.lastManagedVehicleState # VEHICLE_READY

(* C24: no operation calls Rcm::selfTest() at a point where the charge  *)
(* state is Charging.                                                   *)
C24_NoSelfTestWhileCharging == ~obs.testWhileCharging

(* the periodic self-test has run, 24 h after the pre-charge test of a  *)
(* charge                                                               *)
C24_Witness ==
  /\ obs.st # "none"
  /\ now > BootTime
  /\ obs.lastClosed # NEVER

C26_StopOpensAndClears ==
  [][StopCharging
       => /\ RelayOpen_
          /\ relay'.desiredState = LOW
          /\ evse'.state = STATE_READY
          /\ ~evse'.userPaused]_vars

(* the relay, last switched by a closing, is open without a pause, a    *)
(* lockout or an unplug: a charge was stopped                           *)
C26_Witness ==
  /\ evse.state = STATE_READY
  /\ ~evse.userPaused
  /\ ~evse.errorLockout
  /\ evse.vehicleState = VEHICLE_READY
  /\ RelayOpen
  /\ obs.lastClosed # NEVER
  /\ relay.lastSwitchTime = obs.lastClosed

(* C27: pauseCharging() while Charging returns with the relay pin Open, *)
(* the charge state Ready, userPaused set and pausedAtLowLimit as it    *)
(* was; while not Charging it changes nothing.                          *)
C27_PauseOnlyWhileCharging ==
  [][PauseCharging
       => IF evse.state = STATE_CHARGING
          THEN /\ RelayOpen_
               /\ evse'.state = STATE_READY
               /\ evse'.userPaused
               /\ evse'.pausedAtLowLimit = evse.pausedAtLowLimit
          ELSE UNCHANGED <<evse, relay, pilot, rcm>>]_vars

(* a charge paused by the user during a low-limit pause *)
C27_Witness ==
  /\ evse.userPaused
  /\ evse.pausedAtLowLimit
  /\ evse.state = STATE_READY
  /\ evse.vehicleState = VEHICLE_READY

(* C28: a read changes the committed vehicle state exactly when it is   *)
(* the third (or a later) consecutive read producing one and the same   *)
(* classification and that classification differs from the committed    *)
(* state.                                                               *)
C28_CommitAfterThreeReads ==
  [][~(/\ ~((pilot'.lastVehicleState # pilot.lastVehicleState)
              <=> (obs'.run >= 3 /\ obs'.runState # pilot.lastVehicleState))
       /\ CallPilotRead)]_vars

(* C29: a read under PWM with a high peak of 5.2 V and a low peak of    *)
(* -0.3 V makes Error the candidate classification.                     *)
DiodeFaultSample == [none |-> FALSE, high |-> 5200, low |-> -300]

C29_DiodeFaultIsError ==
  [][~(/\ pilot.pwmAttached
       /\ pilot'.candidateState # VEHICLE_ERROR
       /\ CallPilotReadWith(DiodeFaultSample))]_vars

(* C30: after every run of the publisher the value published as         *)
(* pwmDuty is the duty of the pilot output: the duty written to the PWM *)
(* peripheral while the PWM is attached, and that of a steady level     *)
(* (0 % or 100 %) while it is detached.                                 *)
C30_PublishedDutyIsApplied ==
  [][MqttLoop
       => IF pilot'.pwmAttached
          THEN obs'.pwmDuty = pilot'.currentDutyPercent
          ELSE obs'.pwmDuty \in {0, 100 * 100}]_vars


(* ------------------------------------------------------------------ *)
(* The MQTT adapter's report of the charge state                        *)
(* ------------------------------------------------------------------ *)
(* The connection to the broker is lost: the broker publishes the       *)
(* client's last will, "offline", retained on evse/D/state.             *)
BrokerDrop ==
  /\ mqtt.connected
  /\ mqtt' = [mqtt EXCEPT !.connected = FALSE, !.topicState = "offline"]
  /\ UNCHANGED <<evse, relay, pilot, rcm, now, obs, boot, config, test, ctl>>

TickMqtt ==
  /\ now + MqttTickMs <= BootTime + MqttMaxTicks * MqttTickMs
  /\ now' = now + MqttTickMs
  /\ UNCHANGED <<evse, relay, pilot, rcm, obs, mqtt, boot, config, test, ctl>>

NextMqtt ==
  \/ LoopThrottle
  \/ StartCharging
  \/ StopCharging
  \/ MqttLoop
  \/ BrokerDrop
  \/ TickMqtt

SpecMqtt == Init /\ [][NextMqtt]_vars

(* C31: after a pass of the MQTT adapter's loop that leaves the broker  *)
(* connected, while the charge state is Charging (which only an         *)
(* accepted start command sets), the value last published on            *)
(* evse/D/state is the text of the charge state.                        *)
C31_StateTopicFollowsState ==
  [][~(evse.state = STATE_CHARGING /\ mqtt'.connected
         /\ mqtt'.topicState # itoa(evse.state) /\ MqttLoop)]_vars

(* ------------------------------------------------------------------ *)
(* The broker fail-safe configuration                                   *)
(* ------------------------------------------------------------------ *)
(* mqttCallback(), topic evse/D/setFailsafe *)
mqttSetFailsafe(m, newState) ==
  IF m.fsEnabled # newState THEN [m EXCEPT !.fsEnabled = newState] ELSE m

(* mqttCallback(), topic evse/D/setFailsafeTimeout: val is msg.toInt() *)
mqttSetFailsafeTimeout(m, val) ==
  LET v1 == IF val < FS_TIMEOUT_MIN THEN FS_TIMEOUT_MIN ELSE val
      v2 == IF v1 > FS_TIMEOUT_MAX THEN FS_TIMEOUT_MAX ELSE v1
  IN IF m.fsTimeout # v2 THEN [m EXCEPT !.fsTimeout = v2] ELSE m

setFailsafeConfig(m, enabled, timeout) ==
  [m EXCEPT !.fsEnabled = enabled, !.fsTimeout = timeout]

(* The fields of the settings form read by handleSaveConfig(), numbers   *)
(* as String::toInt() returns them (0 for an empty field).               *)
SaveForms ==
  [hasMaxcur : BOOLEAN, solto : ThrottleTimeoutInputs,
   hasMqhost : BOOLEAN, mqsafe : BOOLEAN, mqsafet : FsTimeoutInputs,
   hasRcmen : BOOLEAN, rcmen : BOOLEAN]

(* WebController::handleSaveConfig(): the configuration after the form *)
savedConfig(c, form) ==
  LET c1 == IF form.hasMaxcur
            THEN [c EXCEPT !.solarStopTimeout = form.solto] ELSE c
      c2 == IF form.hasMqhost
            THEN [c1 EXCEPT !.mqttFailsafeEnabled = form.mqsafe,
                            !.mqttFailsafeTimeout = form.mqsafet]
            ELSE c1
  IN IF form.hasRcmen THEN [c2 EXCEPT !.rcmEnabled = form.rcmen] ELSE c2

MqttSetFailsafe ==
  \E newState \in BOOLEAN :
    /\ mqtt' = mqttSetFailsafe(mqtt, newState)
    /\ UNCHANGED <<evse, relay, pilot, rcm, now, obs, boot, config, test, ctl>>

MqttSetFailsafeTimeout ==
  \E val \in FsTimeoutInputs :
    /\ mqtt' = mqttSetFailsafeTimeout(mqtt, val)
    /\ UNCHANGED <<evse, relay, pilot, rcm, now, obs, boot, config, test, ctl>>

(* WebController::handleSaveConfig(): the form is stored, then applied   *)
(* to the MQTT adapter and to the controller.                            *)
HandleSaveConfig ==
  \E form \in SaveForms :
    LET c == savedConfig(config, form)
        s == setRcmEnabled(setThrottleAliveTimeout(Sys, c.solarStopTimeout),
                           c.rcmEnabled)
    IN /\ config' = c
       /\ mqtt' = setFailsafeConfig(mqtt, c.mqttFailsafeEnabled,
                                    c.mqttFailsafeTimeout)
       /\ evse' = s.e
       /\ obs' = Observe(s, FALSE)
       /\ UNCHANGED <<relay, pilot, rcm, now, boot, test, ctl>>

NextFailsafe ==
  \/ MqttSetFailsafe
  \/ MqttSetFailsafeTimeout
  \/ HandleSaveConfig

SpecFailsafe == Init /\ [][NextFailsafe]_vars

(* C32: in every reachable state the broker fail-safe timeout in effect *)
(* lies between 10 and 3600 seconds.                                    *)
C32_FailsafeTimeoutInRange ==
  mqtt.fsTimeout >= FS_TIMEOUT_MIN /\ mqtt.fsTimeout <= FS_TIMEOUT_MAX

(* ------------------------------------------------------------------ *)
(* The boot-loop guard                                                  *)
(* ------------------------------------------------------------------ *)
(* g_bootRegister is kept as its two 16-bit halves, magic and count.    *)
(* boot.resets and boot.counted are kept by the observer: the number of *)
(* soft resets since the last cold boot, and whether that cold boot     *)
(* found a wrong magic and no uptime since has passed STABILITY_MS (the *)
(* resets are counted only as long as that is so).                      *)
BootCount_begin(b) ==
  IF b.magic # BOOT_MAGIC
  THEN [b EXCEPT !.magic = BOOT_MAGIC, !.count = 1]
  ELSE [b EXCEPT !.count = (b.count + 1) % UINT16]

BootCount_loop(b, t) ==
  IF b.count > 0 /\ t > STABILITY_MS THEN [b EXCEPT !.count = 0] ELSE b

IsBootCountHigh(b) == b.count > BOOT_LIMIT

(* What the register holds after a power cycle: RTC_NOINIT memory *)
BootGarbage == [magic : {0, BOOT_MAGIC}, count : {0, 7}]

ColdBoot ==
  \E g \in BootGarbage :
    /\ boot' = [BootCount_begin([boot EXCEPT !.magic = g.magic,
                                             !.count = g.count])
                  EXCEPT !.resets = 0, !.counted = (g.magic # BOOT_MAGIC)]
    /\ now' = BootTime
    /\ UNCHANGED <<evse, relay, pilot, rcm, obs, mqtt, config, test, ctl>>

SoftReset ==
  /\ boot.resets < MaxResets
  /\ LET counted == boot.counted /\ now <= STABILITY_MS
     IN boot' = [BootCount_begin(boot)
                   EXCEPT !.resets = IF counted THEN @ + 1 ELSE 0,
                          !.counted = counted]
  /\ now' = BootTime
  /\ UNCHANGED <<evse, relay, pilot, rcm, obs, mqtt, config, test, ctl>>

BootLoop ==
  /\ boot' = BootCount_loop(boot, now)
  /\ UNCHANGED <<evse, relay, pilot, rcm, now, obs, mqtt, config, test, ctl>>

NextBoot ==
  \/ ColdBoot
  \/ SoftReset
  \/ BootLoop
  \/ Tick

SpecBoot == Init /\ [][NextBoot]_vars

(* C33: after a cold boot that found a wrong magic and k soft resets    *)
(* with no uptime beyond 5 minutes, the boot counter is k+1 and the     *)
(* boot-loop flag is raised exactly when k+1 > 5.                       *)
C33_CounterIsResetsPlusOne ==
  (boot.counted /\ now <= STABILITY_MS)
    => /\ boot.count = boot.resets + 1
       /\ IsBootCountHigh(boot) <=> (boot.resets + 1 > BOOT_LIMIT)

(* ------------------------------------------------------------------ *)
(* The amps <-> duty mapping around 51 A / 85 %                         *)
(* ------------------------------------------------------------------ *)
SeamAmpInputs == SeamAmpLo .. SeamAmpHi

SeamDutyInputs == {8400 + SeamDutyStep * i : i \in 0 .. SeamDutySteps}

(* Pilot::currentLimit(amps) called directly *)
CallSeamCurrentLimit ==
  \E amps \in SeamAmpInputs :
    /\ pilot' = Pilot_currentLimit(Sys, amps).p
    /\ obs' = [obs EXCEPT !.reqAmps = amps]
    /\ UNCHANGED <<evse, relay, rcm, now, mqtt, boot, config, test, ctl>>

(* WebController::handleTestCmd(), act=pwm *)
HandleTestCmdPwm ==
  \E duty \in SeamDutyInputs :
    LET amps == dutyToAmps(duty)
        s == setCurrentTest(Sys, amps)
    IN /\ pilot' = s.p
       /\ obs' = [obs EXCEPT !.reqAmps = IF evse.currentTest
                                         THEN (IF amps < MIN_CURRENT
                                               THEN MIN_CURRENT ELSE amps)
                                         ELSE @]
       /\ UNCHANGED <<evse, relay, rcm, now, mqtt, boot, config, test, ctl>>

NextSeam ==
  \/ CallSeamCurrentLimit
  \/ HandleTestCmdPwm
  \/ EnableCurrentTest

SpecSeam == Init /\ [][NextSeam]_vars

(* C34: the duty applied for a current above 51 A is never below the    *)
(* duty applied for 51 A (the mapping does not decrease across the      *)
(* 51 A / 85 % seam).                                                   *)
C34_NonDecreasingAcrossSeam ==
  (pilot.pwmAttached /\ obs.reqAmps > J1772_LOW_RANGE_MAX_AMPS)
    => pilot.currentDutyPercent >= ampsToDuty(J1772_LOW_RANGE_MAX_AMPS)

(* ------------------------------------------------------------------ *)
(* Rcm::selfTest() step by step, with the ISR                           *)
(* ------------------------------------------------------------------ *)
(* test.pc is the position of the control task inside Rcm::selfTest()   *)
(* ("idle" outside it), test.caller the operation that called it,       *)
(* test.line the level of PIN_RCM_TEST, test.edged whether the sense    *)
(* line has risen for the pulse in progress, test.success the result of *)
(* the 500 ms take.  test.own and test.lastTest are kept by the         *)
(* observer: whether the semaphore holds a signal given for a self-test *)
(* pulse and for nothing else, and the time at which the last           *)
(* selfTest() returned.                                                 *)
Idle == test.pc = "idle"

FinishTest(s, cycle, m, tst) ==
  /\ evse' = s.e
  /\ relay' = s.r
  /\ pilot' = s.p
  /\ rcm' = m
  /\ obs' = Observe(s, cycle)
  /\ test' = tst
  /\ UNCHANGED <<now, mqtt, boot, config, ctl>>

(* One control cycle in which the periodic self-test is not due *)
LoopSelfTest ==
  /\ Idle
  /\ \E pinRead \in PinReads, sample \in ThrottleSamples :
       /\ ~PeriodicTestDue(loopRcmCheck(Sys, pinRead), now)
       /\ LET s == loop(Sys, now, pinRead, TRUE, sample)
          IN FinishTest(s, TRUE, s.m,
                        [test EXCEPT !.own = @ /\ s.m.semaphore])

(* One control cycle in which the periodic self-test is due: the poll   *)
(* of the RCM, then the entry into selfTest() and its first take        *)
PeriodicBegin ==
  /\ Idle
  /\ \E pinRead \in PinReads :
       LET s1 == loopRcmCheck(Sys, pinRead)
       IN /\ PeriodicTestDue(s1, now)
          /\ FinishTest(s1, FALSE, [s1.m EXCEPT !.semaphore = FALSE],
                        [test EXCEPT !.pc = "drained", !.caller = "periodic",
                                     !.own = FALSE])

(* startCharging() up to the first take of its selfTest() *)
StartBegin ==
  /\ Idle
  /\ ~startRejected(Sys) /\ evse.rcmEnabled
  /\ rcm' = [rcm EXCEPT !.semaphore = FALSE]
  /\ test' = [test EXCEPT !.pc = "drained", !.caller = "start", !.own = FALSE]
  /\ UNCHANGED <<evse, relay, pilot, now, obs, mqtt, boot, config, ctl>>

(* startCharging() that runs no self-test *)
StartNoTest ==
  /\ Idle
  /\ startRejected(Sys) \/ ~evse.rcmEnabled
  /\ Return(startCharging(Sys, now, TRUE))

(* digitalWrite(PIN_RCM_TEST, HIGH) *)
TestAssert ==
  /\ test.pc = "drained"
  /\ test' = [test EXCEPT !.pc = "asserted", !.line = TRUE, !.edged = FALSE]
  /\ UNCHANGED <<evse, relay, pilot, rcm, now, obs, mqtt, boot, config, ctl>>

(* rcmIsr() on the rising edge of the sense line that answers the test  *)
(* pulse: once per pulse, while the test line is high                   *)
TestEdge ==
  /\ test.line /\ ~test.edged
  /\ rcm' = [rcm EXCEPT !.semaphore = TRUE]
  /\ test' = [test EXCEPT !.edged = TRUE, !.own = TRUE]
  /\ UNCHANGED <<evse, relay, pilot, now, obs, mqtt, boot, config, ctl>>

(* xSemaphoreTake(rcmSemaphore, 500 ms) returns pdTRUE *)
TestTake ==
  /\ test.pc = "asserted" /\ rcm.semaphore
  /\ rcm' = [rcm EXCEPT !.semaphore = FALSE]
  /\ test' = [test EXCEPT !.pc = "returning", !.success = TRUE, !.own = FALSE]
  /\ UNCHANGED <<evse, relay, pilot, now, obs, mqtt, boot, config, ctl>>

(* xSemaphoreTake(rcmSemaphore, 500 ms) times out *)
TestTimeout ==
  /\ test.pc = "asserted" /\ ~rcm.semaphore
  /\ test' = [test EXCEPT !.pc = "returning", !.success = FALSE]
  /\ UNCHANGED <<evse, relay, pilot, rcm, now, obs, mqtt, boot, config, ctl>>

(* digitalWrite(PIN_RCM_TEST, LOW), return to the caller, which runs to *)
(* its end                                                              *)
TestReturn ==
  /\ test.pc = "returning"
  /\ LET tst == [test EXCEPT !.pc = "idle", !.caller = "none", !.line = FALSE,
                             !.lastTest = now]
     IN IF test.caller = "start"
        THEN FinishTest(startCharging(Sys, now, test.success), FALSE, rcm, tst)
        ELSE \E sample \in ThrottleSamples :
               FinishTest(loopFromPeriodicTest(Sys, now, test.success, sample),
                          TRUE, rcm, tst)

NextSelfTest ==
  \/ LoopSelfTest
  \/ PeriodicBegin
  \/ StartBegin
  \/ StartNoTest
  \/ TestAssert
  \/ TestEdge
  \/ TestTake
  \/ TestTimeout
  \/ TestReturn
  \/ Idle /\ StopCharging
  \/ Idle /\ SetRcmEnabled
  \/ RcmIsr
  \/ Tick

SpecSelfTest == Init /\ [][NextSelfTest]_vars

(* C35: Rcm::isTriggered() never returns true on a semaphore signal     *)
(* that was given for a self-test's own test pulse.                     *)
C35_OwnPulseNeverReported == ~obs.ownReported

(* C36: a control cycle enters the periodic self-test only with the RCM *)
(* enabled, the charge state not Charging, and at least 24 h after the  *)
(* previous self-test, periodic or pre-charge, if there was one.        *)
C36_PeriodicTestOnlyAfter24h ==
  [][(Idle /\ test'.caller = "periodic")
       => /\ evse.rcmEnabled
          /\ evse'.state # STATE_CHARGING
          /\ \/ test.lastTest = NEVER
             \/ Sub32(now, test.lastTest) >= RCM_TEST_INTERVAL]_vars

(* C37: a control cycle changes currentLimit only with the ThrottleAlive *)
(* timeout armed, the charge state Charging, the last ThrottleAlive       *)
(* signal or successful start older than the timeout and currentLimit     *)
(* above 6 A, and then only downwards; signalThrottleAlive() never        *)
(* changes currentLimit.                                                  *)
C37_OnlyStaleRampChangesLimit ==
  [][~(/\ evse'.currentLimit # evse.currentLimit
       /\ \/ /\ \/ evse.throttleAliveTimeout = 0
                \/ evse.state # STATE_CHARGING
                \/ ~ThrottleExceeded(evse, now)
                \/ evse.currentLimit <= MIN_CURRENT
                \/ evse'.currentLimit > evse.currentLimit
             /\ LoopThrottle
          \/ SignalThrottleAlive)]_vars

(* a limit ramped down by one step, just after a ThrottleAlive signal *)
C37_Witness ==
  /\ evse.state = STATE_CHARGING
  /\ evse.throttleAliveTimeout > 0
  /\ evse.currentLimit \in {RampStep(a) : a \in ThrottleAmpInputs}
  /\ evse.lastThrottleAliveTime = now
  /\ ~ThrottleExceeded(evse, now)

(* C38: in no reachable state is the charge state Charging while        *)
(* errorLockout is set.                                                 *)
C38_NoChargingInLockout == ~(evse.state = STATE_CHARGING /\ evse.errorLockout)

(* C39: in every reachable state rcmTripped implies errorLockout.       *)
C39_TrippedImpliesLockout == evse.rcmTripped => evse.errorLockout

(* the vehicle has reported Error or NoPower, after an unplug had       *)
(* cleared the lockout and the relay had been closed: locked out, Ready *)
C38_Witness ==
  /\ evse.errorLockout /\ ~evse.rcmTripped
  /\ evse.state = STATE_READY
  /\ evse.vehicleState \in {VEHICLE_ERROR, VEHICLE_NO_POWER}
  /\ obs.unplugSeen /\ obs.lastClosed # NEVER

(* an RCM fault has latched both flags after an unplug had cleared the  *)
(* lockout                                                              *)
C39_Witness ==
  /\ evse.rcmTripped /\ evse.errorLockout
  /\ obs.unplugSeen
  /\ evse.vehicleState # VEHICLE_NOT_CONNECTED

(* ------------------------------------------------------------------ *)
(* The control cycle in a task of its own, statement by statement       *)
(* ------------------------------------------------------------------ *)
(* ctl.pc is the position of the control task inside loop() ("idle"     *)
(* between two iterations), ctl.charging the value it has read from     *)
(* state inside managePwmAndRelay().  ctl.stopped is kept by the        *)
(* observer: an adapter's stopCharging() has returned and no start has  *)
(* been accepted since.                                                 *)
FinishCtl(s, cycle, c) ==
  /\ evse' = s.e
  /\ relay' = s.r
  /\ pilot' = s.p
  /\ rcm' = s.m
  /\ obs' = Observe(s, cycle)
  /\ ctl' = c
  /\ UNCHANGED <<now, mqtt, boot, config, test>>

CtlRcmCheck ==
  /\ ctl.pc = "idle"
  /\ \E pinRead \in PinReads :
       FinishCtl(loopRcmCheck(Sys, pinRead), FALSE, [ctl EXCEPT !.pc = "rcm"])

CtlPeriodicTest ==
  /\ ctl.pc = "rcm"
  /\ FinishCtl(loopPeriodicTest(Sys, now, TRUE), FALSE,
               [ctl EXCEPT !.pc = "test"])

CtlRelayLoop ==
  /\ ctl.pc = "test"
  /\ FinishCtl(Relay_loop(Sys, now), FALSE, [ctl EXCEPT !.pc = "relay"])

CtlUpdateVehicleState ==
  /\ ctl.pc = "relay"
  /\ \E sample \in ThrottleSamples :
       FinishCtl(updateVehicleState(Sys, now, sample), FALSE,
                 [ctl EXCEPT !.pc = "vehicle"])

(* managePwmAndRelay() up to its read of state in the switch *)
CtlManageRead ==
  /\ ctl.pc = "vehicle"
  /\ IF evse.currentTest
     THEN FinishCtl(Relay_open(Sys), FALSE, [ctl EXCEPT !.pc = "managed"])
     ELSE LET s == manageLockout(Sys)
          IN FinishCtl(s, FALSE,
                       [ctl EXCEPT !.pc = "read",
                                   !.charging = (s.e.state = STATE_CHARGING)])

(* managePwmAndRelay(): the branch chosen with the value read *)
CtlManageApply ==
  /\ ctl.pc = "read"
  /\ FinishCtl(manageOutputsWith(Sys, ctl.charging), FALSE,
               [ctl EXCEPT !.pc = "managed"])

CtlCheckResume ==
  /\ ctl.pc = "managed"
  /\ FinishCtl(checkResumeFromLowLimit(Sys, now), FALSE,
               [ctl EXCEPT !.pc = "resumed"])

CtlThrottleAlive ==
  /\ ctl.pc = "resumed"
  /\ FinishCtl(loopThrottleAlive(Sys, now), TRUE, [ctl EXCEPT !.pc = "idle"])

(* WebController::handleCmd, "start", in the adapters' task *)
AdapterStart ==
  \E success \in (IF StartAccepted /\ evse.rcmEnabled THEN BOOLEAN ELSE {TRUE}) :
    LET s == startCharging(Sys, now, success)
    IN FinishCtl(s, FALSE,
                 [ctl EXCEPT !.stopped = @ /\ s.e.state # STATE_CHARGING])

(* WebController::handleCmd, "stop", in the adapters' task *)
AdapterStop ==
  FinishCtl(Pilot_standby(stopCharging(Sys)), FALSE,
            [ctl EXCEPT !.stopped = TRUE])

NextTasks ==
  \/ CtlRcmCheck
  \/ CtlPeriodicTest
  \/ CtlRelayLoop
  \/ CtlUpdateVehicleState
  \/ CtlManageRead
  \/ CtlManageApply
  \/ CtlCheckResume
  \/ CtlThrottleAlive
  \/ AdapterStart
  \/ AdapterStop
  \/ Tick

SpecTasks == Init /\ [][NextTasks]_vars

(* C40: once an adapter's stopCharging() has returned, and as long as   *)
(* the charge state is Ready, the relay pin is not driven Closed.       *)
C40_NoCloseAfterStop ==
  [][~(/\ ctl.stopped
       /\ evse.state = STATE_READY /\ evse'.state = STATE_READY
       /\ relay.currentState = LOW /\ relay'.currentState = HIGH)]_vars

====
